---- MODULE Spec2Model ----
(***************************************************************************)
(* Model of the subtitle selection controllers of Aegisub                  *)
(* (src/aegisub/src/selection_controller.h).                               *)
(*                                                                         *)
(* Two controller variants are modelled:                                   *)
(*   "Base"  a controller derived from BaseSubtitleSelectionController.    *)
(*           The listener registry and the two Announce functions are      *)
(*           translated from the header; the storage of the active line    *)
(*           and of the selected set, and the navigation policy, are not   *)
(*           in the header (the methods are pure virtual) and follow the   *)
(*           documented contract.                                          *)
(*   "Dummy" DummySubtitleSelectionController, translated from the header. *)
(*                                                                         *)
(* Subtitle lines (AssDialogue pointers) are 1..NumLines in document       *)
(* order, the null pointer is NULL.  Listeners (pointers to                *)
(* SubtitleSelectionListener) are 1..NumListeners, ordered as their        *)
(* addresses are.                                                          *)
(***************************************************************************)
EXTENDS Integers, Sequences, FiniteSets, TLC

\* Bounds of the model
NumLines == 2
NumListeners == 2
MaxSelLen == 2
MaxTextLen == 3
MaxReentrant == 1

\* The null AssDialogue pointer
NULL == 0

Lines == 1..NumLines
LineOrNull == Lines \cup {NULL}
Listeners == 1..NumListeners

\* Values of the SubtitleSelection type: vectors of lines, in any order,
\* possibly with repeated elements
SubtitleSelection == UNION {[1..n -> Lines] : n \in 0..MaxSelLen}

VARIABLES
    kind,            \* which controller class the object is
    active_line,     \* Base: the stored active line
    selected_set,    \* Base: the stored selected set
    listeners,       \* Base: std::set of listeners, as its iteration sequence
    calls,           \* listener callbacks made by the last operation, in order
    op,              \* the last operation: name, arguments, result
    before,          \* the controller's state when the last operation began
    added,           \* per listener, the caller's AddSelectionListener calls since
                     \* its last RemoveSelectionListener: 0 none yet, 1 one, 2 two
                     \* or more, -1 removed and not added again
    isFloat,         \* NumValidator::isFloat
    isSigned,        \* NumValidator::isSigned
    text,            \* content of the text field the validator is bound to
    key,             \* the last keystroke: character, verdict, content before it
    pc,              \* step by step: "idle", "announce" (inside an Announce loop)
                     \* or "crashed"
    events,          \* step by step: the announces the operation has still to make
    it,              \* step by step: the element the loop's iterator points to
    invalid,         \* step by step: the iterator's element has been erased
    broken,          \* step by step: an iterator was invalidated in this operation
    seen,            \* step by step: what each callback of calls found when it ran
    stayed,          \* step by step: listeners registered since the loop began
    reentered        \* step by step: calls made from inside callbacks in this operation

\* The state of the numeric validator and its text field
numvars == <<isFloat, isSigned, text, key>>

\* The state of an operation in progress, for the step-by-step specifications
stepvars == <<pc, events, it, invalid, broken, seen, stayed, reentered>>

vars == <<kind, active_line, selected_set, listeners, calls, op, before, added,
          numvars, stepvars>>

----------------------------------------------------------------------------
\* Helpers on vectors and sets

\* The content of a vector taken as a set
ToSet(v) == {v[i] : i \in DOMAIN v}

\* Smallest element of a non-empty set of integers
Min(S) == CHOOSE x \in S : \A y \in S : x <= y

\* The elements of a set of pointers as a vector, in increasing order
RECURSIVE SetToVector(_)
SetToVector(S) ==
    IF S = {} THEN <<>>
    ELSE <<Min(S)>> \o SetToVector(S \ {Min(S)})

----------------------------------------------------------------------------
\* BaseSubtitleSelectionController: the listener registry.
\* std::set<SubtitleSelectionListener *> is kept as the sequence its
\* iterator walks: increasing addresses, no element twice.

\* Insert as a multiset or a list would do it: the element is added even
\* when it is present (the length test only keeps the registry finite)
Insert_Duplicating(ls, listener) ==
    IF Len(ls) >= 2 * NumListeners
    THEN ls
    ELSE SelectSeq(ls, LAMBDA x : x <= listener)
         \o <<listener>>
         \o SelectSeq(ls, LAMBDA x : x > listener)

\* listeners.insert(listener): no effect when the element is present
Insert(ls, listener) ==
    IF \E i \in DOMAIN ls : ls[i] = listener
    THEN ls
    ELSE SelectSeq(ls, LAMBDA x : x < listener)
         \o <<listener>>
         \o SelectSeq(ls, LAMBDA x : x > listener)

\* Erase that removes by position instead of by key: the first element goes
Erase_First(ls, listener) == IF ls = <<>> THEN ls ELSE Tail(ls)

\* Erase that removes the last element when the key is not found
Erase_OrLast(ls, listener) ==
    IF \E i \in DOMAIN ls : ls[i] = listener
    THEN SelectSeq(ls, LAMBDA x : x # listener)
    ELSE SubSeq(ls, 1, Len(ls) - 1)

\* listeners.erase(listener): removes the element equal to the key
Erase(ls, listener) == SelectSeq(ls, LAMBDA x : x # listener)

\* One callback as the listener observes it
Call(listener, callback, line, sel) ==
    [listener |-> listener, callback |-> callback, line |-> line, sel |-> sel]

\* Fan-out whose loop stops one element early
AnnounceActiveLineChanged_StopsEarly(ls, new_line) ==
    [i \in 1..(Len(ls) - 1) |-> Call(ls[i], "OnActiveLineChanged", new_line, <<>>)]

\* Fan-out that calls every listener twice
AnnounceActiveLineChanged_Twice(ls, new_line) ==
    [i \in 1..(2 * Len(ls)) |->
        Call(ls[(i + 1) \div 2], "OnActiveLineChanged", new_line, <<>>)]

\* Call OnActiveLineChanged on all listeners, from begin() to end()
AnnounceActiveLineChanged(ls, new_line) ==
    [i \in 1..Len(ls) |-> Call(ls[i], "OnActiveLineChanged", new_line, <<>>)]

\* Fan-out that starts at the second listener
AnnounceSelectedSetChanged_SkipsFirst(ls, new_selection) ==
    [i \in 1..(Len(ls) - 1) |->
        Call(ls[i + 1], "OnSelectedSetChanged", NULL, new_selection)]

\* Call OnSelectedSetChanged on all listeners, from begin() to end()
AnnounceSelectedSetChanged(ls, new_selection) ==
    [i \in 1..Len(ls) |-> Call(ls[i], "OnSelectedSetChanged", NULL, new_selection)]

----------------------------------------------------------------------------
\* Bookkeeping of the caller's view: what was called, with what, and what
\* the controller looked like when the call began.

OpRecord(name, line, sel, listener, accepted, result_line, result_sel) ==
    [name |-> name, line |-> line, sel |-> sel, listener |-> listener,
     accepted |-> accepted, result_line |-> result_line, result_sel |-> result_sel]

NoOp == OpRecord("none", NULL, <<>>, 0, FALSE, NULL, <<>>)

Snapshot == [active |-> active_line, selected |-> selected_set, listeners |-> listeners]

\* Every operation records itself and the state it started from
Record(o) ==
    /\ op' = o
    /\ before' = Snapshot

\* listeners.end()
END == 0

\* No operation in progress
NoStep ==
    /\ pc = "idle"
    /\ events = <<>>
    /\ it = END
    /\ invalid = FALSE
    /\ broken = FALSE
    /\ seen = <<>>
    /\ stayed = {}
    /\ reentered = 0

\* No keystroke yet
NoKey == [chr |-> "", ok |-> FALSE, was |-> <<>>]

Init ==
    /\ kind \in {"Base", "Dummy"}
    /\ active_line = NULL
    /\ selected_set = {}
    /\ listeners = <<>>
    /\ calls = <<>>
    /\ op = NoOp
    /\ before = [active |-> NULL, selected |-> {}, listeners |-> <<>>]
    /\ added = [l \in Listeners |-> 0]
    /\ isFloat = FALSE
    /\ isSigned = FALSE
    /\ text = <<>>
    /\ key = NoKey
    /\ NoStep

----------------------------------------------------------------------------
\* DummySubtitleSelectionController: every method has an empty body

\* A dummy that tells the listeners it was given about the line
DummySetActiveLine_Announcing(new_line) ==
    /\ calls' = AnnounceActiveLineChanged(
                    SetToVector({l \in Listeners : added[l] >= 1}), new_line)
    /\ UNCHANGED <<active_line, selected_set, listeners>>

DummySetActiveLine(new_line) ==
    /\ calls' = <<>>
    /\ UNCHANGED <<active_line, selected_set, listeners>>

\* A dummy that echoes the line it was last given
DummyGetActiveLine_Echo == IF op.name = "SetActiveLine" THEN op.line ELSE NULL

\* return 0
DummyGetActiveLine == NULL

\* A dummy that stores the first line of the selection it is given
DummySetSelectedSet_Partial(new_selection) ==
    /\ selected_set' = IF new_selection = <<>> THEN selected_set
                       ELSE selected_set \cup {new_selection[1]}
    /\ calls' = <<>>
    /\ UNCHANGED <<active_line, listeners>>

DummySetSelectedSet(new_selection) ==
    /\ calls' = <<>>
    /\ UNCHANGED <<active_line, selected_set, listeners>>

\* The body is empty: the caller's vector comes back as it was passed
DummyGetSelectedSet(selection) == selection

\* A dummy that moves to a first line
DummyNextLine_Moving ==
    /\ active_line' = 1
    /\ calls' = <<>>
    /\ UNCHANGED <<selected_set, listeners>>

DummyNextLine ==
    /\ calls' = <<>>
    /\ UNCHANGED <<active_line, selected_set, listeners>>

DummyPrevLine ==
    /\ calls' = <<>>
    /\ UNCHANGED <<active_line, selected_set, listeners>>

DummyAddSelectionListener(listener) ==
    /\ calls' = <<>>
    /\ UNCHANGED <<active_line, selected_set, listeners>>

DummyRemoveSelectionListener(listener) ==
    /\ calls' = <<>>
    /\ UNCHANGED <<active_line, selected_set, listeners>>

----------------------------------------------------------------------------
\* BaseSubtitleSelectionController: listener bookkeeping

\* Registration that replays the current active line to the new listener
BaseAddSelectionListener_Replaying(listener) ==
    /\ listeners' = Insert(listeners, listener)
    /\ calls' = AnnounceActiveLineChanged(<<listener>>, active_line)
    /\ UNCHANGED <<active_line, selected_set>>

BaseAddSelectionListener(listener) ==
    /\ listeners' = Insert(listeners, listener)
    /\ calls' = <<>>
    /\ UNCHANGED <<active_line, selected_set>>

BaseRemoveSelectionListener(listener) ==
    /\ listeners' = Erase(listeners, listener)
    /\ calls' = <<>>
    /\ UNCHANGED <<active_line, selected_set>>

----------------------------------------------------------------------------
\* A controller derived from BaseSubtitleSelectionController.  The header
\* declares these methods pure virtual; their behaviour is the contract the
\* interface documents: the derived class stores the active line and the
\* selected set and calls the protected Announce functions.

\* Replace the active line; announce only an actual change
DerivedSetActiveLine(new_line) ==
    /\ active_line' = new_line
    /\ calls' = IF new_line # active_line
                THEN AnnounceActiveLineChanged(listeners, new_line)
                ELSE <<>>
    /\ UNCHANGED <<selected_set, listeners>>

DerivedGetActiveLine == active_line

\* Comparison of the vectors instead of their content
SelectionDiffers_AsVector(new_selection) == new_selection # SetToVector(selected_set)

\* Whether the new content differs from the stored selected set
SelectionDiffers(new_selection) == ToSet(new_selection) # selected_set

\* Replace the selected set as a whole, or refuse and keep it; announce
\* only an accepted change of content
DerivedSetSelectedSet(new_selection, accept) ==
    /\ selected_set' = IF accept THEN ToSet(new_selection) ELSE selected_set
    /\ calls' = IF accept /\ SelectionDiffers(new_selection)
                THEN AnnounceSelectedSetChanged(listeners, SetToVector(ToSet(new_selection)))
                ELSE <<>>
    /\ UNCHANGED <<active_line, listeners>>

\* Filling that appends to the caller's vector without clearing it
DerivedGetSelectedSet_Appending(selection) == selection \o SetToVector(selected_set)

\* The caller's vector is filled with a copy of the selected set
DerivedGetSelectedSet(selection) == SetToVector(selected_set)

\* The document's line after / before a line, NULL when there is none
NextOf(line) == IF line # NULL /\ line < NumLines THEN line + 1 ELSE NULL
PrevOf(line) == IF line # NULL /\ line > 1 THEN line - 1 ELSE NULL

\* Move the active line to a neighbour and collapse the selection onto it
MoveTo(target) ==
    IF target = NULL
    THEN /\ calls' = <<>>
         /\ UNCHANGED <<active_line, selected_set, listeners>>
    ELSE /\ active_line' = target
         /\ selected_set' = {target}
         /\ calls' = AnnounceActiveLineChanged(listeners, target)
                     \o AnnounceSelectedSetChanged(listeners, <<target>>)
         /\ UNCHANGED listeners

DerivedNextLine == MoveTo(NextOf(active_line))

DerivedPrevLine == MoveTo(PrevOf(active_line))

----------------------------------------------------------------------------
\* The operations of the SubtitleSelectionController interface, dispatched
\* on the dynamic type of the controller

SetActiveLine(new_line) ==
    /\ IF kind = "Dummy" THEN DummySetActiveLine(new_line)
                         ELSE DerivedSetActiveLine(new_line)
    /\ Record(OpRecord("SetActiveLine", new_line, <<>>, 0, FALSE, NULL, <<>>))
    /\ UNCHANGED <<kind, added, numvars, stepvars>>

\* What GetActiveLine() returns in the current state
GetActiveLineResult ==
    IF kind = "Dummy" THEN DummyGetActiveLine ELSE DerivedGetActiveLine

GetActiveLine ==
    /\ Record(OpRecord("GetActiveLine", NULL, <<>>, 0, FALSE, GetActiveLineResult, <<>>))
    /\ calls' = <<>>
    /\ UNCHANGED <<kind, active_line, selected_set, listeners, added, numvars, stepvars>>

SetSelectedSet(new_selection, accept) ==
    /\ IF kind = "Dummy" THEN DummySetSelectedSet(new_selection)
                         ELSE DerivedSetSelectedSet(new_selection, accept)
    /\ Record(OpRecord("SetSelectedSet", NULL, new_selection, 0,
                       kind # "Dummy" /\ accept, NULL, <<>>))
    /\ UNCHANGED <<kind, added, numvars, stepvars>>

\* What GetSelectedSet(selection) leaves in the caller's vector in the
\* current state; selection is its content when the call is made
GetSelectedSetResult(selection) ==
    IF kind = "Dummy" THEN DummyGetSelectedSet(selection)
                      ELSE DerivedGetSelectedSet(selection)

\* A read that hands the selected set over and leaves none behind
GetSelectedSet_Draining(selection) ==
    /\ Record(OpRecord("GetSelectedSet", NULL, selection, 0, FALSE, NULL,
                       GetSelectedSetResult(selection)))
    /\ calls' = <<>>
    /\ selected_set' = {}
    /\ UNCHANGED <<kind, active_line, listeners, added, numvars, stepvars>>

GetSelectedSet(selection) ==
    /\ Record(OpRecord("GetSelectedSet", NULL, selection, 0, FALSE, NULL,
                       GetSelectedSetResult(selection)))
    /\ calls' = <<>>
    /\ UNCHANGED <<kind, active_line, selected_set, listeners, added, numvars, stepvars>>

\* What the caller may do to the vector GetSelectedSet filled: clear() it
\* or push_back a line
Modifications(selection) ==
    {<<>>} \cup {Append(selection, line) : line \in Lines}

\* The caller modifies the vector it passed to GetSelectedSet.  The vector
\* is the caller's object, taken by reference for the call only; the record
\* keeps what it held on return and what it holds now.
ModifySelection(new_content) ==
    /\ op.name = "GetSelectedSet"
    /\ Record(OpRecord("ModifySelection", NULL, op.result_sel, 0, FALSE, NULL, new_content))
    /\ calls' = <<>>
    /\ UNCHANGED <<kind, active_line, selected_set, listeners, added, numvars, stepvars>>

NextLine ==
    /\ IF kind = "Dummy" THEN DummyNextLine ELSE DerivedNextLine
    /\ Record(OpRecord("NextLine", NULL, <<>>, 0, FALSE, NULL, <<>>))
    /\ UNCHANGED <<kind, added, numvars, stepvars>>

PrevLine ==
    /\ IF kind = "Dummy" THEN DummyPrevLine ELSE DerivedPrevLine
    /\ Record(OpRecord("PrevLine", NULL, <<>>, 0, FALSE, NULL, <<>>))
    /\ UNCHANGED <<kind, added, numvars, stepvars>>

AddSelectionListener(listener) ==
    /\ IF kind = "Dummy" THEN DummyAddSelectionListener(listener)
                         ELSE BaseAddSelectionListener(listener)
    /\ Record(OpRecord("AddSelectionListener", NULL, <<>>, listener, FALSE, NULL, <<>>))
    /\ added' = [added EXCEPT ![listener] = IF @ < 1 THEN 1 ELSE 2]
    /\ UNCHANGED <<kind, numvars, stepvars>>

RemoveSelectionListener(listener) ==
    /\ IF kind = "Dummy" THEN DummyRemoveSelectionListener(listener)
                         ELSE BaseRemoveSelectionListener(listener)
    /\ Record(OpRecord("RemoveSelectionListener", NULL, <<>>, listener, FALSE, NULL, <<>>))
    /\ added' = [added EXCEPT ![listener] = -1]
    /\ UNCHANGED <<kind, numvars, stepvars>>

Next ==
    \/ \E new_line \in LineOrNull : SetActiveLine(new_line)
    \/ GetActiveLine
    \/ \E new_selection \in SubtitleSelection, accept \in BOOLEAN :
          SetSelectedSet(new_selection, accept)
    \/ \E selection \in SubtitleSelection : GetSelectedSet(selection)
    \/ \E new_content \in Modifications(op.result_sel) : ModifySelection(new_content)
    \/ NextLine
    \/ PrevLine
    \/ \E listener \in Listeners : AddSelectionListener(listener)
    \/ \E listener \in Listeners : RemoveSelectionListener(listener)

Spec == Init /\ [][Next]_vars

TypeOK ==
    /\ kind \in {"Base", "Dummy"}
    /\ active_line \in LineOrNull
    /\ selected_set \subseteq Lines
    /\ \A i \in DOMAIN listeners : listeners[i] \in Listeners
    /\ added \in [Listeners -> -1..2]
    /\ isFloat \in BOOLEAN
    /\ isSigned \in BOOLEAN
    /\ Len(text) <= MaxTextLen

----------------------------------------------------------------------------
\* NumValidator (validators.h).  The header declares the class; the
\* character filter follows its documented behaviour.  Characters are
\* one-character strings; keystrokes are typed at the end of the field.

Digits == {"0", "9"}
SignChars == {"-", "+"}
DecimalChars == {"."}
Chars == Digits \cup SignChars \cup DecimalChars \cup {"a"}

\* A filter that forgets to look at gotDecimal
CheckCharacter_AnyDecimal(chr, isFirst, canSign, gotDecimal) ==
    IF chr \in SignChars
    THEN [ok |-> isFirst /\ canSign /\ isSigned, gotDecimal |-> gotDecimal]
    ELSE IF chr \in DecimalChars
    THEN [ok |-> isFloat, gotDecimal |-> gotDecimal \/ isFloat]
    ELSE [ok |-> chr \in Digits, gotDecimal |-> gotDecimal]

\* bool CheckCharacter(int chr, bool isFirst, bool canSign, bool &gotDecimal):
\* the verdict, and gotDecimal as the call leaves it
CheckCharacter(chr, isFirst, canSign, gotDecimal) ==
    IF chr \in SignChars
    THEN [ok |-> isFirst /\ canSign /\ isSigned, gotDecimal |-> gotDecimal]
    ELSE IF chr \in DecimalChars
    THEN [ok |-> isFloat /\ ~gotDecimal,
          gotDecimal |-> gotDecimal \/ (isFloat /\ ~gotDecimal)]
    ELSE [ok |-> chr \in Digits, gotDecimal |-> gotDecimal]

\* How many characters of a set a field content holds
CountIn(content, S) == Cardinality({i \in DOMAIN content : content[i] \in S})

\* A keystroke: the filter sees the field content as it is and the
\* character joins the field only when the filter accepts it
OnChar(chr) ==
    /\ Len(text) < MaxTextLen
    /\ LET verdict == CheckCharacter(chr, text = <<>>,
                                      CountIn(text, SignChars) = 0,
                                      CountIn(text, DecimalChars) > 0)
       IN /\ text' = IF verdict.ok THEN Append(text, chr) ELSE text
          /\ key' = [chr |-> chr, ok |-> verdict.ok, was |-> text]
    /\ UNCHANGED <<isFloat, isSigned>>
    /\ UNCHANGED <<kind, active_line, selected_set, listeners, calls, op, before, added>>
    /\ UNCHANGED stepvars

\* Deleting the last character is the field's own editing, not filtered
Backspace ==
    /\ text # <<>>
    /\ text' = SubSeq(text, 1, Len(text) - 1)
    /\ key' = [chr |-> "BACK", ok |-> TRUE, was |-> text]
    /\ UNCHANGED <<isFloat, isSigned>>
    /\ UNCHANGED <<kind, active_line, selected_set, listeners, calls, op, before, added>>
    /\ UNCHANGED stepvars

\* NumValidator(valPtr, isfloat, issigned) bound to an empty field
InitNum ==
    /\ isFloat \in BOOLEAN
    /\ isSigned \in BOOLEAN
    /\ text = <<>>
    /\ key = NoKey
    /\ kind = "Dummy"
    /\ active_line = NULL
    /\ selected_set = {}
    /\ listeners = <<>>
    /\ calls = <<>>
    /\ op = NoOp
    /\ before = [active |-> NULL, selected |-> {}, listeners |-> <<>>]
    /\ added = [l \in Listeners |-> 0]
    /\ NoStep

NextNum ==
    \/ \E chr \in Chars : OnChar(chr)
    \/ Backspace

SpecNum == InitNum /\ [][NextNum]_vars

----------------------------------------------------------------------------
\* The Announce loops of BaseSubtitleSelectionController step by step: one
\* step per iteration, so that what a callback finds and does while the loop
\* runs is visible.  A callback makes at most one call of its own.

\* listeners.begin()
Begin(ls) == IF ls = <<>> THEN END ELSE ls[1]

\* Loop test that stops before the last element
AtEnd_BeforeLast(i) ==
    i = END \/ (listeners # <<>> /\ i = listeners[Len(listeners)])

\* listener == listeners.end()
AtEnd(i) == i = END

\* Increment that steps over an element
Increment_SkipsOne(ls, l) ==
    LET after == {x \in ToSet(ls) : x > l}
        rest == after \ {Min(after)}
    IN IF after = {} \/ rest = {} THEN END ELSE Min(rest)

\* ++listener on an iterator whose element is in the set: the next element
\* in address order, or end()
Increment(ls, l) ==
    LET after == {x \in ToSet(ls) : x > l}
    IN IF after = {} THEN END ELSE Min(after)

\* An announce to make: the callback and the value Announce was given
Event(callback, line, sel) == [callback |-> callback, line |-> line, sel |-> sel]

\* A call that does not pass the Announce's argument on
Notify_NoArgument(listener, event) == Call(listener, event.callback, NULL, <<>>)

\* The call in the loop body: OnActiveLineChanged(new_line) or
\* OnSelectedSetChanged(new_selection) on the iterator's listener
Notify(listener, event) == Call(listener, event.callback, event.line, event.sel)

\* An operation starts with the announces it has to make; the first loop
\* begins at once
StartOperation(o, todo) ==
    /\ Record(o)
    /\ calls' = <<>>
    /\ seen' = <<>>
    /\ events' = todo
    /\ pc' = IF todo = <<>> THEN "idle" ELSE "announce"
    /\ it' = IF todo = <<>> THEN END ELSE Begin(listeners)
    /\ stayed' = IF todo = <<>> THEN {} ELSE ToSet(listeners)
    /\ invalid' = FALSE
    /\ broken' = FALSE
    /\ reentered' = 0

\* The derived controller's operations (contract), up to their first announce
StepSetActiveLine(new_line) ==
    /\ pc = "idle"
    /\ active_line' = new_line
    /\ StartOperation(OpRecord("SetActiveLine", new_line, <<>>, 0, FALSE, NULL, <<>>),
                      IF new_line # active_line
                      THEN <<Event("OnActiveLineChanged", new_line, <<>>)>>
                      ELSE <<>>)
    /\ UNCHANGED <<kind, selected_set, listeners, added, numvars>>

StepSetSelectedSet(new_selection, accept) ==
    /\ pc = "idle"
    /\ selected_set' = IF accept THEN ToSet(new_selection) ELSE selected_set
    /\ StartOperation(OpRecord("SetSelectedSet", NULL, new_selection, 0, accept, NULL, <<>>),
                      IF accept /\ SelectionDiffers(new_selection)
                      THEN <<Event("OnSelectedSetChanged", NULL,
                                   SetToVector(ToSet(new_selection)))>>
                      ELSE <<>>)
    /\ UNCHANGED <<kind, active_line, listeners, added, numvars>>

StepMoveTo(name, target) ==
    /\ pc = "idle"
    /\ active_line' = IF target = NULL THEN active_line ELSE target
    /\ selected_set' = IF target = NULL THEN selected_set ELSE {target}
    /\ StartOperation(OpRecord(name, NULL, <<>>, 0, FALSE, NULL, <<>>),
                      IF target = NULL
                      THEN <<>>
                      ELSE <<Event("OnActiveLineChanged", target, <<>>),
                             Event("OnSelectedSetChanged", NULL, <<target>>)>>)
    /\ UNCHANGED <<kind, listeners, added, numvars>>

StepNextLine == StepMoveTo("NextLine", NextOf(active_line))

StepPrevLine == StepMoveTo("PrevLine", PrevOf(active_line))

\* AddSelectionListener and RemoveSelectionListener called from outside a callback
StepAddSelectionListener(listener) ==
    /\ pc = "idle"
    /\ BaseAddSelectionListener(listener)
    /\ StartOperation(OpRecord("AddSelectionListener", NULL, <<>>, listener, FALSE, NULL, <<>>),
                      <<>>)
    /\ UNCHANGED <<kind, added, numvars>>

StepRemoveSelectionListener(listener) ==
    /\ pc = "idle"
    /\ BaseRemoveSelectionListener(listener)
    /\ StartOperation(OpRecord("RemoveSelectionListener", NULL, <<>>, listener, FALSE, NULL, <<>>),
                      <<>>)
    /\ UNCHANGED <<kind, added, numvars>>

\* One iteration of an Announce loop: the listener's callback runs, reads
\* the controller, leaves the registry as after_callback, and the iterator
\* is incremented.  When the callback erased the iterator's own element the
\* increment is undefined.
LoopBody(after_callback) ==
    /\ pc = "announce"
    /\ ~invalid
    /\ ~AtEnd(it)
    /\ calls' = Append(calls, Notify(it, Head(events)))
    /\ seen' = Append(seen, [line |-> GetActiveLineResult,
                             sel |-> GetSelectedSetResult(<<>>),
                             registered |-> it \in ToSet(listeners)])
    /\ listeners' = after_callback
    /\ stayed' = stayed \cap ToSet(after_callback)
    /\ IF it \in ToSet(after_callback)
       THEN /\ it' = Increment(after_callback, it)
            /\ UNCHANGED <<invalid, broken>>
       ELSE /\ invalid' = TRUE
            /\ broken' = TRUE
            /\ UNCHANGED it
    /\ UNCHANGED <<pc, events, kind, active_line, selected_set, op, before, added, numvars>>

\* A callback that only looks at the controller
CallbackRuns ==
    /\ LoopBody(listeners)
    /\ UNCHANGED reentered

\* A callback that calls AddSelectionListener
CallbackAdds(listener) ==
    /\ reentered < MaxReentrant
    /\ LoopBody(Insert(listeners, listener))
    /\ reentered' = reentered + 1

\* A callback that calls RemoveSelectionListener
CallbackRemoves(listener) ==
    /\ reentered < MaxReentrant
    /\ LoopBody(Erase(listeners, listener))
    /\ reentered' = reentered + 1

\* ++listener on an iterator whose element was erased is undefined: the loop
\* may go on from any listener, registered or not, or from end() ...
IncrementUndefined(next) ==
    /\ pc = "announce"
    /\ invalid
    /\ Len(calls) <= 2 * NumListeners
    /\ it' = next
    /\ invalid' = FALSE
    /\ UNCHANGED <<pc, events, broken, seen, stayed, reentered>>
    /\ UNCHANGED <<kind, active_line, selected_set, listeners, calls, op, before, added, numvars>>

\* ... or the program may crash
Crash ==
    /\ pc = "announce"
    /\ invalid
    /\ pc' = "crashed"
    /\ UNCHANGED <<events, it, invalid, broken, seen, stayed, reentered>>
    /\ UNCHANGED <<kind, active_line, selected_set, listeners, calls, op, before, added, numvars>>

\* The loop is over: the Announce function returns to the operation, which
\* makes its next announce or returns to its caller
AnnounceReturns ==
    /\ pc = "announce"
    /\ ~invalid
    /\ AtEnd(it)
    /\ events' = Tail(events)
    /\ pc' = IF Tail(events) = <<>> THEN "idle" ELSE "announce"
    /\ it' = IF Tail(events) = <<>> THEN END ELSE Begin(listeners)
    /\ stayed' = IF Tail(events) = <<>> THEN stayed ELSE ToSet(listeners)
    /\ UNCHANGED <<invalid, broken, seen, reentered>>
    /\ UNCHANGED <<kind, active_line, selected_set, listeners, calls, op, before, added, numvars>>

InitStep ==
    /\ kind = "Base"
    /\ active_line = NULL
    /\ selected_set = {}
    /\ listeners = <<>>
    /\ calls = <<>>
    /\ op = NoOp
    /\ before = [active |-> NULL, selected |-> {}, listeners |-> <<>>]
    /\ added = [l \in Listeners |-> 0]
    /\ isFloat = FALSE
    /\ isSigned = FALSE
    /\ text = <<>>
    /\ key = NoKey
    /\ NoStep

\* Listeners that keep to the rule of not calling the controller's mutators
\* from a callback
NextStep ==
    \/ \E new_line \in LineOrNull : StepSetActiveLine(new_line)
    \/ \E new_selection \in SubtitleSelection, accept \in BOOLEAN :
          StepSetSelectedSet(new_selection, accept)
    \/ StepNextLine
    \/ StepPrevLine
    \/ \E listener \in Listeners : StepAddSelectionListener(listener)
    \/ \E listener \in Listeners : StepRemoveSelectionListener(listener)
    \/ CallbackRuns
    \/ AnnounceReturns

SpecStep == InitStep /\ [][NextStep]_vars

\* Listeners whose callbacks may add and remove listeners
NextReentrant ==
    \/ \E new_line \in LineOrNull : StepSetActiveLine(new_line)
    \/ StepNextLine
    \/ StepPrevLine
    \/ \E listener \in Listeners : StepAddSelectionListener(listener)
    \/ \E listener \in Listeners : StepRemoveSelectionListener(listener)
    \/ CallbackRuns
    \/ \E listener \in Listeners : CallbackAdds(listener)
    \/ \E listener \in Listeners : CallbackRemoves(listener)
    \/ \E next \in Listeners \cup {END} : IncrementUndefined(next)
    \/ Crash
    \/ AnnounceReturns

SpecReentrant == InitStep /\ [][NextReentrant]_vars

----------------------------------------------------------------------------
\* Properties

\* The listeners registered when the last operation began
RegisteredBefore == ToSet(before.listeners)

\* How many times the last operation called the given callback of a listener
CallsTo(l, callback) ==
    Cardinality({i \in DOMAIN calls :
                    calls[i].listener = l /\ calls[i].callback = callback})

\* The last operation called no callback of the listener
NotCalled(l) == \A i \in DOMAIN calls : calls[i].listener # l

\* C1 as stated: on every controller, the dummy included, SetActiveLine(x)
\* followed by GetActiveLine() returns x.
C1_SetGetAnyController ==
    op.name = "SetActiveLine" => GetActiveLineResult = op.line

\* C1 amended: on a controller that stores the active line, SetActiveLine(x)
\* followed by GetActiveLine() returns x; on the dummy controller
\* GetActiveLine() returns none whatever x was.
C1_SetGetActiveLine ==
    op.name = "SetActiveLine" =>
        GetActiveLineResult = (IF kind = "Dummy" THEN NULL ELSE op.line)

C1_Witness ==
    /\ op.name = "SetActiveLine"
    /\ op.line # NULL
    /\ op.line # before.active
    /\ GetActiveLineResult = (IF kind = "Dummy" THEN NULL ELSE op.line)

\* C2: SetActiveLine notifies if and only if the active line changed: called
\* with the current value (none included) it calls no listener, and every
\* change of the active line, to or from none included, reaches the
\* registered listeners.
C2_NotifyIffChanged ==
    op.name = "SetActiveLine" =>
        /\ op.line = before.active => calls = <<>>
        /\ active_line = before.active => calls = <<>>
        /\ active_line # before.active =>
              \A l \in RegisteredBefore : CallsTo(l, "OnActiveLineChanged") >= 1

C2_Witness ==
    /\ op.name = "SetActiveLine"
    /\ before.active # NULL
    /\ active_line = NULL
    /\ RegisteredBefore = Listeners
    /\ \A l \in Listeners : CallsTo(l, "OnActiveLineChanged") >= 1

\* C3: SetActiveLine(v) with v different from the current active line makes
\* exactly one OnActiveLineChanged call per registered listener, each
\* carrying v, and no other call.
C3_OneCallPerListener ==
    (op.name = "SetActiveLine" /\ op.line # before.active) =>
        /\ \A l \in RegisteredBefore : CallsTo(l, "OnActiveLineChanged") = 1
        /\ \A l \in Listeners \ RegisteredBefore : NotCalled(l)
        /\ \A i \in DOMAIN calls :
              calls[i].callback = "OnActiveLineChanged" /\ calls[i].line = op.line

C3_Witness ==
    /\ op.name = "SetActiveLine"
    /\ op.line # before.active
    /\ op.line # NULL
    /\ Cardinality(RegisteredBefore) = NumListeners
    /\ Len(calls) = NumListeners
    /\ \A i \in DOMAIN calls : calls[i].line = op.line

\* C4: once RemoveSelectionListener(l) has returned, l receives no callback
\* from any later operation, until it is added again.
C4_RemovedNotCalled ==
    \A l \in Listeners : added[l] = -1 => NotCalled(l)

C4_Witness ==
    \E l \in Listeners :
        /\ added[l] = -1
        /\ calls # <<>>
        /\ NotCalled(l)
        /\ l \notin RegisteredBefore

\* C5: a listener added two or more times gets at most one call of each
\* callback per announced event, and one RemoveSelectionListener takes it
\* out of the registry.
C5_SetSemantics ==
    \A l \in Listeners :
        /\ added[l] = 2 =>
              /\ CallsTo(l, "OnActiveLineChanged") <= 1
              /\ CallsTo(l, "OnSelectedSetChanged") <= 1
        /\ added[l] = -1 => l \notin ToSet(listeners)

C5_Witness ==
    \E l \in Listeners :
        /\ added[l] = 2
        /\ CallsTo(l, "OnActiveLineChanged") = 1
        /\ CallsTo(l, "OnSelectedSetChanged") = 1

\* C6: on the dummy controller, after any sequence of operations,
\* GetActiveLine() returns none and the selection GetSelectedSet hands back
\* to its caller is empty.
C6_DummyReadsEmpty ==
    kind = "Dummy" =>
        /\ op.name = "GetActiveLine" => op.result_line = NULL
        /\ op.name = "GetSelectedSet" => op.result_sel = <<>>

\* C7: on the dummy controller no listener callback is ever invoked,
\* whatever listeners were added and whatever operation is called.
C7_DummyNeverNotifies ==
    kind = "Dummy" => calls = <<>>

C7_Witness ==
    /\ kind = "Dummy"
    /\ \A l \in Listeners : added[l] >= 1
    /\ op.name = "SetActiveLine"
    /\ op.line # NULL
    /\ calls = <<>>

\* C8: for a selection S the controller accepts, SetSelectedSet(S) followed
\* by GetSelectedSet() returns S: the vector handed back holds exactly the
\* lines of S, each once.
C8_SetGetSelectedSet ==
    (op.name = "SetSelectedSet" /\ op.accepted) =>
        \A selection \in SubtitleSelection :
            /\ ToSet(GetSelectedSetResult(selection)) = ToSet(op.sel)
            /\ Len(GetSelectedSetResult(selection)) = Cardinality(ToSet(op.sel))

C8_Witness ==
    /\ op.name = "SetSelectedSet"
    /\ op.accepted
    /\ Cardinality(ToSet(op.sel)) >= 2
    /\ ToSet(op.sel) # before.selected
    /\ \A selection \in SubtitleSelection :
          ToSet(GetSelectedSetResult(selection)) = ToSet(op.sel)

\* C9: SetSelectedSet is all-or-nothing: afterwards the selected set is
\* exactly the new set or exactly the previous one; when the change is
\* refused the previous selected set and the active line are retained and
\* no listener is called.
C9_AllOrNothing ==
    op.name = "SetSelectedSet" =>
        /\ selected_set \in {ToSet(op.sel), before.selected}
        /\ ~op.accepted =>
              /\ selected_set = before.selected
              /\ active_line = before.active
              /\ calls = <<>>

C9_Witness ==
    /\ op.name = "SetSelectedSet"
    /\ ~op.accepted
    /\ op.sel # <<>>
    /\ ToSet(op.sel) # before.selected
    /\ selected_set = before.selected
    /\ \E l \in Listeners : added[l] >= 1

\* C10: SetSelectedSet with a selection whose content, as a set, equals the
\* current selected set never triggers OnSelectedSetChanged, whatever the
\* order or repetition of the elements of the vector passed.
C10_SameSetNoNotify ==
    (op.name = "SetSelectedSet" /\ ToSet(op.sel) = before.selected) =>
        \A l \in Listeners : CallsTo(l, "OnSelectedSetChanged") = 0

C10_Witness ==
    /\ op.name = "SetSelectedSet"
    /\ op.accepted
    /\ ToSet(op.sel) = before.selected
    /\ op.sel # SetToVector(before.selected)
    /\ before.listeners # <<>>
    /\ calls = <<>>

\* C11: NextLine() when the active line has no next line, and PrevLine()
\* when it has no previous line, leave the active line and the selected set
\* (stored and as read) unchanged and call no listener.
C11_NoNeighbourNoChange ==
    ((op.name = "NextLine" /\ NextOf(before.active) = NULL)
        \/ (op.name = "PrevLine" /\ PrevOf(before.active) = NULL)) =>
        /\ active_line = before.active
        /\ selected_set = before.selected
        /\ GetActiveLineResult = before.active
        /\ ToSet(GetSelectedSetResult(<<>>)) = before.selected
        /\ calls = <<>>

C11_Witness ==
    /\ op.name = "NextLine"
    /\ before.active = NumLines
    /\ active_line = NumLines
    /\ Cardinality(selected_set) >= 2
    /\ before.listeners # <<>>
    /\ calls = <<>>

\* C12: NextLine() from an active line whose next line exists, and PrevLine()
\* to an existing previous line, set the active line to that neighbour and
\* the selected set to the neighbour alone, and call OnActiveLineChanged once
\* and OnSelectedSetChanged once on every registered listener, with the new
\* values.
C12_MoveToNeighbour ==
    \A target \in Lines :
        ((op.name = "NextLine" /\ NextOf(before.active) = target)
            \/ (op.name = "PrevLine" /\ PrevOf(before.active) = target)) =>
            /\ active_line = target
            /\ selected_set = {target}
            /\ \A l \in RegisteredBefore :
                  /\ CallsTo(l, "OnActiveLineChanged") = 1
                  /\ CallsTo(l, "OnSelectedSetChanged") = 1
            /\ \A l \in Listeners \ RegisteredBefore : NotCalled(l)
            /\ \A i \in DOMAIN calls :
                  \/ calls[i].callback = "OnActiveLineChanged" /\ calls[i].line = target
                  \/ calls[i].callback = "OnSelectedSetChanged" /\ calls[i].sel = <<target>>

C12_Witness ==
    /\ op.name = "NextLine"
    /\ before.active # NULL
    /\ active_line = before.active + 1
    /\ selected_set = {active_line}
    /\ before.selected # selected_set
    /\ RegisteredBefore = Listeners
    /\ Len(calls) = 2 * NumListeners

\* C13: AddSelectionListener and RemoveSelectionListener only change the
\* membership of the listener in the registry: adding a registered listener
\* or removing an unregistered one leaves the registry as it was, and neither
\* calls a listener or changes the active line or the selected set.
C13_ListenerOpsFrame ==
    /\ op.name \in {"AddSelectionListener", "RemoveSelectionListener"} =>
          /\ calls = <<>>
          /\ active_line = before.active
          /\ selected_set = before.selected
    /\ (op.name = "AddSelectionListener" /\ kind = "Base") =>
          ToSet(listeners) = RegisteredBefore \cup {op.listener}
    /\ (op.name = "RemoveSelectionListener" /\ kind = "Base") =>
          ToSet(listeners) = RegisteredBefore \ {op.listener}
    /\ (op.name = "AddSelectionListener" /\ op.listener \in RegisteredBefore) =>
          listeners = before.listeners
    /\ (op.name = "RemoveSelectionListener" /\ op.listener \notin RegisteredBefore) =>
          listeners = before.listeners

C13_Witness ==
    /\ op.name = "RemoveSelectionListener"
    /\ op.listener \notin RegisteredBefore
    /\ before.listeners # <<>>
    /\ listeners = before.listeners
    /\ active_line # NULL
    /\ selected_set # {}

\* C17: GetActiveLine() and GetSelectedSet() are pure reads: they change
\* neither the active line, the selected set nor the listener registry and
\* call no listener, and modifying the selection GetSelectedSet() returned
\* does not change the controller's selected set.
C17_PureReads ==
    op.name \in {"GetActiveLine", "GetSelectedSet", "ModifySelection"} =>
        /\ active_line = before.active
        /\ selected_set = before.selected
        /\ listeners = before.listeners
        /\ calls = <<>>
        /\ kind = "Base" => ToSet(GetSelectedSetResult(<<>>)) = before.selected

C17_Witness ==
    /\ op.name = "ModifySelection"
    /\ op.sel # <<>>
    /\ op.result_sel = <<>>
    /\ ToSet(op.sel) = selected_set
    /\ active_line # NULL
    /\ listeners # <<>>

\* An operation that announces: it changed the active line or the selected set
Announced == active_line # before.active \/ selected_set # before.selected

\* C19: a listener is called only for events announced while it is
\* registered: AddSelectionListener itself calls nobody, the registry holds
\* exactly the listeners added and not removed since, and an announce calls
\* exactly the listeners registered at that moment.
C19_OnlyWhileRegistered ==
    /\ op.name = "AddSelectionListener" => calls = <<>>
    /\ kind = "Base" => ToSet(listeners) = {l \in Listeners : added[l] >= 1}
    /\ \A i \in DOMAIN calls : calls[i].listener \in RegisteredBefore
    /\ Announced => {calls[i].listener : i \in DOMAIN calls} = RegisteredBefore

C19_Witness ==
    \E l \in Listeners :
        /\ op.name = "SetActiveLine"
        /\ Announced
        /\ added[l] = 1
        /\ RegisteredBefore = {l}
        /\ {calls[i].listener : i \in DOMAIN calls} = {l}
        /\ \E m \in Listeners : added[m] = -1

\* C14: the character filter, keystroke by keystroke: a digit is always
\* accepted; a sign character is accepted only as the first character and
\* only when the validator is signed; a decimal point is accepted only when
\* the validator is floating-point and the field holds none yet; nothing
\* else is accepted.  So the field never holds more than one decimal point
\* nor a sign anywhere but at position 0.
C14_CharacterFilter ==
    /\ key.chr \in Digits => key.ok
    /\ key.chr \in SignChars => (key.ok <=> (key.was = <<>> /\ isSigned))
    /\ key.chr \in DecimalChars =>
          (key.ok <=> (isFloat /\ CountIn(key.was, DecimalChars) = 0))
    /\ key.chr \in Chars \ (Digits \cup SignChars \cup DecimalChars) => ~key.ok
    /\ key.chr \in Chars => text = (IF key.ok THEN Append(key.was, key.chr) ELSE key.was)
    /\ CountIn(text, DecimalChars) <= 1
    /\ \A i \in DOMAIN text : text[i] \in SignChars => i = 1

C14_Witness ==
    /\ isFloat
    /\ isSigned
    /\ Len(text) >= 2
    /\ text[1] \in SignChars
    /\ CountIn(text, DecimalChars) = 1
    /\ key.chr \in DecimalChars
    /\ ~key.ok

\* How many announces the last operation makes
AnnouncesMade ==
    IF op.name = "SetActiveLine" /\ active_line # before.active THEN 1
    ELSE IF op.name = "SetSelectedSet" /\ selected_set # before.selected THEN 1
    ELSE IF op.name \in {"NextLine", "PrevLine"} /\ active_line # before.active THEN 2
    ELSE 0

\* C15: notification is synchronous: when an operation has returned, every
\* callback it caused has run, on every listener, and none is left to make;
\* callbacks run only inside an operation that announces.
C15_Synchronous ==
    /\ pc = "idle" =>
          /\ events = <<>>
          /\ it = END
          /\ Len(calls) = AnnouncesMade * Cardinality(RegisteredBefore)
          /\ \A l \in RegisteredBefore :
                CallsTo(l, "OnActiveLineChanged") + CallsTo(l, "OnSelectedSetChanged")
                    = AnnouncesMade
    /\ pc = "announce" => AnnouncesMade > 0 /\ Len(events) <= AnnouncesMade

C15_Witness ==
    /\ pc = "idle"
    /\ op.name = "NextLine"
    /\ AnnouncesMade = 2
    /\ RegisteredBefore = Listeners
    /\ Len(calls) = 2 * NumListeners

\* C16: when OnActiveLineChanged(v) runs, GetActiveLine() called from the
\* callback returns v, and when OnSelectedSetChanged(S) runs,
\* GetSelectedSet() called from the callback returns S: the state is
\* replaced before the listeners are told.
C16_StateReplacedFirst ==
    \A i \in DOMAIN calls :
        /\ calls[i].callback = "OnActiveLineChanged" => seen[i].line = calls[i].line
        /\ calls[i].callback = "OnSelectedSetChanged" =>
              ToSet(seen[i].sel) = ToSet(calls[i].sel)

C16_Witness ==
    /\ op.name = "SetSelectedSet"
    /\ pc = "announce"
    /\ Len(calls) = NumListeners
    /\ calls[1].callback = "OnSelectedSetChanged"
    /\ Cardinality(ToSet(calls[1].sel)) >= 2
    /\ seen[1].sel = calls[1].sel
    /\ before.selected # {}

\* The fan-outs of the operation are sound: the program has not crashed, no
\* listener was called while it was not registered, none was called twice
\* for an event, and when a loop is over every listener registered all along
\* was called once.
FanOutSound ==
    /\ pc # "crashed"
    /\ \A i \in DOMAIN seen : seen[i].registered
    /\ \A l \in Listeners :
          /\ CallsTo(l, "OnActiveLineChanged") <= 1
          /\ CallsTo(l, "OnSelectedSetChanged") <= 1
    /\ (pc = "announce" /\ ~invalid /\ AtEnd(it)) =>
          \A l \in stayed : CallsTo(l, Head(events).callback) = 1

\* C18 as stated: a callback that calls AddSelectionListener or
\* RemoveSelectionListener, on itself or on another listener, does not break
\* the fan-out.
C18_ReentrantAnySound == FanOutSound

\* C18 amended: a callback that calls AddSelectionListener, on itself or on
\* another listener, or RemoveSelectionListener on a listener other than its
\* own, does not break the fan-out; a callback that removes its own listener
\* erases the element the loop's iterator points to, and the loop's
\* behaviour is undefined from then on.
C18_ReentrantOthersSound == ~broken => FanOutSound

C18_Witness ==
    /\ pc = "announce"
    /\ AtEnd(it)
    /\ ~broken
    /\ reentered >= 1
    /\ RegisteredBefore = Listeners
    /\ stayed # {}
    /\ stayed # Listeners
    /\ \A l \in Listeners : (l \in stayed <=> ~NotCalled(l))

====
